---- MODULE Spec2Model ----
(***************************************************************************)
(* Market-data synchronisation layer of momentum6.                         *)
(*                                                                         *)
(*   prices.py        sync_grouped_bars, backtrack_grouped_to_available,   *)
(*                    _store_single_ticker_close, _fetch_grouped_for_date  *)
(*   chart_module.py  _rate_limited_get (the process-wide rate limiter)    *)
(*                                                                         *)
(* Dates are day numbers; day 0 is a Monday, so Weekday(d) = d % 7 is      *)
(* Python's date.weekday() (Monday = 0 ... Sunday = 6).                    *)
(***************************************************************************)
EXTENDS Integers, Sequences, FiniteSets, Bags, TLC

\* ------------------------------------------------------------------ bounds
\* as_of / anchor / dt arguments are drawn from the two days up to MaxDate
\* (18 = Friday, 19 = Saturday of the third week; the Thursday before them is 17).
MaxDate == 19
\* how many calls (sync, resolve or single-ticker store) one behaviour makes
MaxCalls == 2
\* how many times UniverseService.sync() runs in one behaviour
MaxUniSyncs == 2
\* concurrent callers of _rate_limited_get
NumCallers == 2
\* the clock runs up to MaxClock (tenths of a second)
MaxClock == 700

\* ------------------------------------------------------- program constants
DefaultMaxBack == 5
MAX_CALLS == 5
WINDOW == 60
RETRY_AFTER_DEFAULT == 15
\* the clock counts tenths of a second: the back-off adds 0.1 s
Tenths == 10
W == WINDOW * Tenths
Epsilon == 1
Callers == 1..NumCallers
\* the clock advances by half a window, or to the end of a caller's sleep
ClockStep == W \div 2
\* Retry-After of a 429: absent, a number of seconds, or not a number
RetryAfterHeaders == {"absent", "30", "soon"}

Lookbacks == {0, 3}
\* the calendar starts two weeks earlier for every call beyond the second, so that a
\* chain of syncs, each called with the date the one before returned, stays inside it
FirstInputDay == MaxDate - 1 + 14 * (MaxCalls - 2)
InputDates == FirstInputDay..(FirstInputDay + 1)
Benchmark == "VOO"
\* tickers of an earlier universe, whose rows may already be in the table
StaleTickers == {"OLD", "XOLD"}
\* the second universe holds a ticker the provider never reports
Universes == {{"AAA", "BBB"}, {"AAA", "BBB", "DDD"}}
\* what a grouped request for one date may report: no rows, or bars for these tickers
GroupedResponses == {{}, {"AAA", "BBB", "CCC"}}
Unknown == {"?"}
NoDate == -1
Days == 0..(FirstInputDay + 2)

\* report.py
MAX_TRIES == 5
\* HTTP statuses a bar fetcher may see
Statuses == {200, 429, 500}
\* JSON bodies: the "results" key is absent, null, or a list of bars (tickers)
Bodies ==
    {[key |-> "absent", rows |-> {}], [key |-> "null", rows |-> {}],
     [key |-> "list", rows |-> {}], [key |-> "list", rows |-> {"AAA", "BBB", "CCC"}]}
NoFetch == [fn |-> "none", status |-> 0, key |-> "absent", rows |-> {}, out |-> "none",
            bars |-> {}]
\* universe.py
Cohorts == {"sp500", "sp400", "megacap"}
\* what the SPY and the MDY holdings download may list
SpyHoldings == {{"AAPL", "GOOG"}, {"AAPL", "MSFT"}, {"MSFT"}, {"AAPL", "GOOG", "GOOGL"}}
MdyHoldings == {{"POOL"}, {"POOL", "FND"}}
\* as_of of a universe sync
RunDates == {1, 2}

VARIABLES
    pc,             \* "idle" | "g_loop" (backtrack loop) | "s_loop" (single-ticker loop) |
                    \* "done" (the call has returned or raised)
    calls,          \* calls made so far
    mode,           \* entry point running: "none" | "sync" | "resolve" | "single"
    as_of,          \* sync_grouped_bars: as_of
    anchor,         \* sync: target; backtrack: anchor; single: dt
    max_back,       \* max_back_weekdays / max_weekdays_back
    d,              \* backtrack_grouped_to_available: d
    cur,            \* _store_single_ticker_close: cur
    g_attempts,     \* backtrack_grouped_to_available: attempts_used
    s_attempts,     \* _store_single_ticker_close: attempts_used
    resolved_date,  \* sync_grouped_bars: resolved_date (target on the short-circuit path)
    df,             \* sync_grouped_bars: df, the universe-filtered rows handed to the insert
    outcome,        \* how the last call ended: "none" | "running" | "returned" |
                    \* "NoDataFound" | "NameError" | "HTTPError"
    ret,            \* the value the last call returned (NoDate for None / nothing)
    store,          \* table daily_prices: a bag of rows
    provG,          \* provider, grouped endpoint: date -> tickers reported (Unknown until asked)
    provS,          \* provider, single-ticker endpoint: date -> "unknown" | "bar" | "none"
    symbols,        \* the universe (sp500 | sp400)
    sent,           \* requests issued by the running (or last) call, in order
    last_sync,      \* arguments and result of the last sync_grouped_bars that returned
                    \* to its caller
    store0,         \* daily_prices as it was when the running call was made
    \* chart_module.py, the rate limiter; times are tenths of a second
    now,            \* the clock, time.time()
    callLog,        \* _CALL_LOG
    lock,           \* _LOCK: 0 when free, else the caller holding it
    rpc,            \* per caller: "idle" | "lock" | "prune" | "backoff" | "sleep" |
                    \* "request" | "retry_sleep" | "failed"
    local_now,      \* per caller: the local `now` of _rate_limited_get
    wake,           \* per caller: when the running time.sleep() ends
    rerr,           \* per caller: the error that ended its call
    grantLog,       \* timestamps of the MAX_CALLS + 1 most recent grants
    \* prices._fetch_grouped_for_date and chart_module._fetch_1d_agg
    fetch,          \* the last response a bar fetcher handled, and what it made of it
    \* report._get_json_with_backoff
    bj_pc,          \* "idle" | "loop" | "returned" | "raised"
    attempt,        \* the loop variable `attempt`
    last_exc,       \* last_exc: "None" | "HTTPError" | "ConnectionError"
    bj_resps,       \* the answers to the requests of the running call, in order
    bj_exc,         \* the exception that left the function
    \* universe.UniverseService
    uni_exists,     \* cohorts whose <cohort>.csv exists
    uni_files,      \* cohort -> symbols in <cohort>.csv
    change_log,     \* change_log.csv: a bag of rows
    uni_syncs       \* sync() calls made so far

syncVars == <<pc, calls, mode, as_of, anchor, max_back, d, cur, g_attempts, s_attempts,
              resolved_date, df, outcome, ret, store, provG, provS, symbols,
              sent, last_sync, store0>>

rlVars == <<now, callLog, lock, rpc, local_now, wake, rerr, grantLog>>

httpVars == <<fetch, bj_pc, attempt, last_exc, bj_resps, bj_exc>>

uniVars == <<uni_exists, uni_files, change_log, uni_syncs>>

vars == <<syncVars, rlVars, httpVars, uniVars>>

\* ----------------------------------------------------------------- helpers
Weekday(x) == x % 7

\* mutant: only Sunday is taken for a weekend day
IsSunday(x) == Weekday(x) >= 6

\* d.weekday() >= 5
IsWeekend(x) == Weekday(x) >= 5

\* mutant: the anchor is the last Saturday instead of the last Thursday
LastSaturday(today) == today - ((Weekday(today) - 5) % 7)

\* prices.py:31-34
LastTradingThursday(today) == today - ((Weekday(today) - 3) % 7)

Row(t, dt, c) == [ticker |-> t, date |-> dt, close |-> c]

Rows(tbl) == BagToSet(tbl)

\* the number of rows (copies counted) among `rows` of the table
RECURSIVE SumCopies(_, _)
SumCopies(tbl, rows) ==
    IF rows = {} THEN 0
    ELSE LET r == CHOOSE x \in rows : TRUE
         IN CopiesIn(r, tbl) + SumCopies(tbl, rows \ {r})

\* SELECT COUNT(*) FROM daily_prices WHERE date = ?
CountForDate(tbl, dt) == SumCopies(tbl, {r \in Rows(tbl) : r.date = dt})

\* SELECT 1 FROM daily_prices WHERE ticker=? AND date=?
HasRow(tbl, t, dt) == \E r \in Rows(tbl) : r.ticker = t /\ r.date = dt

\* mutant: the 0.9 is left out, the count must exceed the whole universe
CoveredStrict(cnt, syms) == cnt > Cardinality(syms)

\* cnt > 0.9 * len(symbols)
Covered(cnt, syms) == 10 * cnt > 9 * Cardinality(syms)

\* mutant: a plain INSERT into a table without the primary key
InsertPlain(tbl, row) == tbl (+) SetToBag({row})

\* mutant: INSERT OR REPLACE
InsertOrReplace(tbl, row) ==
    LET kept == {r \in Rows(tbl) : ~(r.ticker = row.ticker /\ r.date = row.date)}
    IN [r \in kept |-> tbl[r]] (+) SetToBag({row})

\* INSERT OR IGNORE of one row under PRIMARY KEY (ticker,date)
InsertOrIgnore(tbl, row) ==
    IF HasRow(tbl, row.ticker, row.date) THEN tbl ELSE tbl (+) SetToBag({row})

\* mutant: the temp table is appended to daily_prices as it is
InsertManyPlain(tbl, rows) == tbl (+) SetToBag(rows)

\* mutant: the filtered rows never reach daily_prices
InsertNone(tbl, rows) == tbl

\* INSERT OR IGNORE INTO daily_prices ... SELECT ... FROM _tmp_prices
RECURSIVE InsertMany(_, _)
InsertMany(tbl, rows) ==
    IF rows = {} THEN tbl
    ELSE LET r == CHOOSE x \in rows : TRUE
         IN InsertMany(InsertOrIgnore(tbl, r), rows \ {r})

\* mutant: the universe filter is left out
FilterNone(tickers, syms, dt, c) == {Row(t, dt, c) : t \in tickers}

\* df[df["ticker"].isin(symbols)] with df["date"] = resolved_date
FilterUniverse(tickers, syms, dt, c) == {Row(t, dt, c) : t \in tickers \cap syms}

\* mutant: the budget is taken to be used up one attempt early
ExhaustedEarly(used, k) == used >= k

\* lines 87 and 239: attempts_used > max_weekdays_back
Exhausted(used, k) == used > k

Request(kind, dt) == [kind |-> kind, date |-> dt]

NoSync == [as_of |-> NoDate, max_back |-> 0, date |-> NoDate]

InitStores ==
    {EmptyBag,
     SetToBag({Row(t, LastTradingThursday(a), 0) : t \in StaleTickers, a \in InputDates})}

\* ---------------------------------------------------------------- the end of a call
\* mutant: the RuntimeError of an exhausted lookback is swallowed
FinishSwallow(oc, r) ==
    /\ pc' = "done"
    /\ outcome' = IF oc = "NoDataFound" THEN "returned" ELSE oc
    /\ ret' = r

Finish(oc, r) ==
    /\ pc' = "done"
    /\ outcome' = oc
    /\ ret' = r

\* mutant: the single-ticker loop goes on counting where the grouped loop stopped
CallSingleShared(tbl, dt, res) ==
    IF HasRow(tbl, Benchmark, dt)
    THEN /\ Finish("returned", res)
         /\ cur' = NoDate
         /\ s_attempts' = 0
    ELSE /\ pc' = "s_loop"
         /\ cur' = dt
         /\ s_attempts' = g_attempts
         /\ outcome' = "running"
         /\ ret' = NoDate

\* _store_single_ticker_close(ticker, dt), lines 199-210: return dt when the row is
\* present, else enter the loop with cur = dt.  `res` is what the running entry point
\* returns when the single-ticker call returns dt.
CallSingle(tbl, dt, res) ==
    IF HasRow(tbl, Benchmark, dt)
    THEN /\ Finish("returned", res)
         /\ cur' = NoDate
         /\ s_attempts' = 0
    ELSE /\ pc' = "s_loop"
         /\ cur' = dt
         /\ s_attempts' = 0
         /\ outcome' = "running"
         /\ ret' = NoDate

Init ==
    /\ pc = "idle"
    /\ calls = 0
    /\ mode = "none"
    /\ as_of = NoDate
    /\ anchor = NoDate
    /\ max_back = 0
    /\ d = NoDate
    /\ cur = NoDate
    /\ g_attempts = 0
    /\ s_attempts = 0
    /\ resolved_date = NoDate
    /\ df = {}
    /\ outcome = "none"
    /\ ret = NoDate
    /\ store \in InitStores
    /\ provG = [x \in Days |-> Unknown]
    /\ provS = [x \in Days |-> "unknown"]
    /\ symbols \in Universes
    /\ sent = <<>>
    /\ last_sync = NoSync
    /\ store0 = store
    /\ now = 0
    /\ callLog = <<>>
    /\ lock = 0
    /\ rpc = [c \in Callers |-> "idle"]
    /\ local_now = [c \in Callers |-> 0]
    /\ wake = [c \in Callers |-> 0]
    /\ rerr = [c \in Callers |-> "none"]
    /\ grantLog = <<>>
    /\ fetch = NoFetch
    /\ bj_pc = "idle"
    /\ attempt = 0
    /\ last_exc = "None"
    /\ bj_resps = <<>>
    /\ bj_exc = "None"
    /\ uni_exists = {}
    /\ uni_files = [c \in Cohorts |-> {}]
    /\ change_log = EmptyBag
    /\ uni_syncs = 0

\* ------------------------------------------------------------ sync_grouped_bars
\* lines 100-135: anchor, coverage check of the anchor, else start backtracking
SyncStart(a, k) ==
    /\ pc = "idle"
    /\ calls < MaxCalls
    /\ calls' = calls + 1
    /\ LET target == LastTradingThursday(a)
           cnt_anchor == CountForDate(store, target)
       IN /\ mode' = "sync"
          /\ as_of' = a
          /\ max_back' = k
          /\ anchor' = target
          /\ sent' = <<>>
          /\ df' = {}
          /\ g_attempts' = 0
          /\ IF Covered(cnt_anchor, symbols)
             THEN /\ resolved_date' = target
                  /\ d' = NoDate
                  /\ CallSingle(store, target, target)
             ELSE /\ pc' = "g_loop"
                  /\ d' = target
                  /\ resolved_date' = NoDate
                  /\ cur' = NoDate
                  /\ s_attempts' = 0
                  /\ outcome' = "running"
                  /\ ret' = NoDate
    /\ store0' = store
    /\ UNCHANGED <<store, provG, provS, symbols, last_sync, rlVars, httpVars, uniVars>>

\* build_report (run_report.py:61-64, generate_report.py:60-63): sync_grouped_bars is
\* called again with as_of = the date an earlier sync_grouped_bars returned
SyncResolved(k) ==
    /\ last_sync.date # NoDate
    /\ SyncStart(last_sync.date, k)

\* backtrack_grouped_to_available(anchor, max_weekdays_back = k) called on its own
ResolveStart(a, k) ==
    /\ pc = "idle"
    /\ calls < MaxCalls
    /\ calls' = calls + 1
    /\ mode' = "resolve"
    /\ as_of' = NoDate
    /\ max_back' = k
    /\ anchor' = a
    /\ sent' = <<>>
    /\ df' = {}
    /\ g_attempts' = 0
    /\ s_attempts' = 0
    /\ pc' = "g_loop"
    /\ d' = a
    /\ cur' = NoDate
    /\ resolved_date' = NoDate
    /\ outcome' = "running"
    /\ ret' = NoDate
    /\ store0' = store
    /\ UNCHANGED <<store, provG, provS, symbols, last_sync, rlVars, httpVars, uniVars>>

\* _store_single_ticker_close("VOO", dt, max_back_weekdays = k) called on its own
SingleStart(dt, k) ==
    /\ pc = "idle"
    /\ calls < MaxCalls
    /\ calls' = calls + 1
    /\ mode' = "single"
    /\ as_of' = NoDate
    /\ max_back' = k
    /\ anchor' = dt
    /\ sent' = <<>>
    /\ df' = {}
    /\ g_attempts' = 0
    /\ d' = NoDate
    /\ resolved_date' = NoDate
    /\ CallSingle(store, dt, dt)
    /\ store0' = store
    /\ UNCHANGED <<store, provG, provS, symbols, last_sync, rlVars, httpVars, uniVars>>

\* ------------------------------------------- backtrack_grouped_to_available loop
\* lines 72-74
GSkipWeekend ==
    /\ pc = "g_loop"
    /\ IsWeekend(d)
    /\ d' = d - 1
    /\ UNCHANGED <<pc, calls, mode, as_of, anchor, max_back, cur, g_attempts, s_attempts,
                   resolved_date, df, outcome, ret, store, provG, provS,
                   symbols, sent, last_sync, store0, rlVars, httpVars, uniVars>>

\* lines 78, 42-46: the provider answers 429; `time` is not imported in prices.py
\* (line 7 imports only `sleep`), so time.sleep(65) raises NameError
GFetch429 ==
    /\ pc = "g_loop"
    /\ ~IsWeekend(d)
    /\ sent' = Append(sent, Request("grouped", d))
    /\ Finish("NameError", NoDate)
    /\ UNCHANGED <<last_sync, store0, calls, mode, as_of, anchor, max_back, d, cur, g_attempts, s_attempts,
                   resolved_date, df, store, provG, provS, symbols, rlVars, httpVars, uniVars>>

\* lines 78, 47: a non-2xx status other than 429, raise_for_status() raises
GFetchHttpError ==
    /\ pc = "g_loop"
    /\ ~IsWeekend(d)
    /\ sent' = Append(sent, Request("grouped", d))
    /\ Finish("HTTPError", NoDate)
    /\ UNCHANGED <<last_sync, store0, calls, mode, as_of, anchor, max_back, d, cur, g_attempts, s_attempts,
                   resolved_date, df, store, provG, provS, symbols, rlVars, httpVars, uniVars>>

\* lines 78-83 and, under sync, lines 137-174: the provider reports rows for d, each
\* with close c
GFetchData(c) ==
    /\ pc = "g_loop"
    /\ ~IsWeekend(d)
    /\ \E tickers \in GroupedResponses \ {{}} :
        /\ provG[d] \in {Unknown, tickers}
        /\ provG' = [provG EXCEPT ![d] = tickers]
        /\ sent' = Append(sent, Request("grouped", d))
        /\ IF mode = "resolve"
           THEN /\ Finish("returned", d)
                /\ UNCHANGED <<resolved_date, df, store, cur, s_attempts>>
           ELSE /\ resolved_date' = d
                /\ IF Covered(CountForDate(store, d), symbols)
                   THEN /\ UNCHANGED <<df, store>>
                        /\ CallSingle(store, d, d)
                   ELSE /\ df' = FilterUniverse(tickers, symbols, d, c)
                        /\ store' = InsertMany(store, df')
                        /\ CallSingle(store', d, d)
    /\ UNCHANGED <<last_sync, store0, calls, mode, as_of, anchor, max_back, d, g_attempts, provS,
                   symbols, rlVars, httpVars, uniVars>>

\* mutant: after an empty answer the candidate date is not stepped back
GFetchEmptyNoStep ==
    /\ pc = "g_loop"
    /\ ~IsWeekend(d)
    /\ provG[d] \in {Unknown, {}}
    /\ provG' = [provG EXCEPT ![d] = {}]
    /\ sent' = Append(sent, Request("grouped", d))
    /\ g_attempts' = g_attempts + 1
    /\ IF Exhausted(g_attempts', max_back)
       THEN /\ Finish("NoDataFound", NoDate)
            /\ UNCHANGED d
       ELSE /\ d' = d
            /\ UNCHANGED <<pc, outcome, ret>>
    /\ UNCHANGED <<last_sync, store0, calls, mode, as_of, anchor, max_back, cur, s_attempts,
                   resolved_date, df, store, provS, symbols, rlVars, httpVars, uniVars>>

\* lines 78-93: zero rows for d
GFetchEmpty ==
    /\ pc = "g_loop"
    /\ ~IsWeekend(d)
    /\ provG[d] \in {Unknown, {}}
    /\ provG' = [provG EXCEPT ![d] = {}]
    /\ sent' = Append(sent, Request("grouped", d))
    /\ g_attempts' = g_attempts + 1
    /\ IF Exhausted(g_attempts', max_back)
       THEN /\ Finish("NoDataFound", NoDate)
            /\ UNCHANGED d
       ELSE /\ d' = d - 1
            /\ UNCHANGED <<pc, outcome, ret>>
    /\ UNCHANGED <<last_sync, store0, calls, mode, as_of, anchor, max_back, cur, s_attempts, resolved_date, df,
                   store, provS, symbols, rlVars, httpVars, uniVars>>

\* ------------------------------------------------ _store_single_ticker_close loop
\* lines 212-214
SSkipWeekend ==
    /\ pc = "s_loop"
    /\ IsWeekend(cur)
    /\ cur' = cur - 1
    /\ UNCHANGED <<pc, calls, mode, as_of, anchor, max_back, d, g_attempts, s_attempts,
                   resolved_date, df, outcome, ret, store, provG, provS,
                   symbols, sent, last_sync, store0, rlVars, httpVars, uniVars>>

\* lines 220-223: 429, and again time.sleep(65) with `time` not imported
SFetch429 ==
    /\ pc = "s_loop"
    /\ ~IsWeekend(cur)
    /\ sent' = Append(sent, Request("single", cur))
    /\ Finish("NameError", NoDate)
    /\ UNCHANGED <<last_sync, store0, calls, mode, as_of, anchor, max_back, d, cur, g_attempts, s_attempts,
                   resolved_date, df, store, provG, provS, symbols, rlVars, httpVars, uniVars>>

\* lines 220, 224
SFetchHttpError ==
    /\ pc = "s_loop"
    /\ ~IsWeekend(cur)
    /\ sent' = Append(sent, Request("single", cur))
    /\ Finish("HTTPError", NoDate)
    /\ UNCHANGED <<last_sync, store0, calls, mode, as_of, anchor, max_back, d, cur, g_attempts, s_attempts,
                   resolved_date, df, store, provG, provS, symbols, rlVars, httpVars, uniVars>>

\* lines 225-235: a bar for cur with close c; insert it and return cur
SFetchBar(c) ==
    /\ pc = "s_loop"
    /\ ~IsWeekend(cur)
    /\ provS[cur] \in {"unknown", "bar"}
    /\ provS' = [provS EXCEPT ![cur] = "bar"]
    /\ sent' = Append(sent, Request("single", cur))
    /\ store' = InsertOrIgnore(store, Row(Benchmark, cur, c))
    /\ Finish("returned", IF mode = "sync" THEN resolved_date ELSE cur)
    /\ UNCHANGED <<last_sync, store0, calls, mode, as_of, anchor, max_back, d, cur, g_attempts, s_attempts,
                   resolved_date, df, provG, symbols, rlVars, httpVars, uniVars>>

\* lines 225, 237-244: no bar for cur
SFetchEmpty ==
    /\ pc = "s_loop"
    /\ ~IsWeekend(cur)
    /\ provS[cur] \in {"unknown", "none"}
    /\ provS' = [provS EXCEPT ![cur] = "none"]
    /\ sent' = Append(sent, Request("single", cur))
    /\ s_attempts' = s_attempts + 1
    /\ IF Exhausted(s_attempts', max_back)
       THEN /\ Finish("returned", IF mode = "sync" THEN resolved_date ELSE NoDate)
            /\ UNCHANGED cur
       ELSE /\ cur' = cur - 1
            /\ UNCHANGED <<pc, outcome, ret>>
    /\ UNCHANGED <<last_sync, store0, calls, mode, as_of, anchor, max_back, d, g_attempts, resolved_date, df,
                   store, provG, symbols, rlVars, httpVars, uniVars>>

\* the call's frame is gone: its caller has the result, the locals are dropped
Return ==
    /\ pc = "done"
    /\ pc' = "idle"
    /\ mode' = "none"
    /\ as_of' = NoDate
    /\ anchor' = NoDate
    /\ max_back' = 0
    /\ d' = NoDate
    /\ cur' = NoDate
    /\ g_attempts' = 0
    /\ s_attempts' = 0
    /\ resolved_date' = NoDate
    /\ df' = {}
    /\ outcome' = "none"
    /\ ret' = NoDate
    /\ sent' = <<>>
    /\ last_sync' = IF mode = "sync" /\ outcome = "returned"
                    THEN [as_of |-> as_of, max_back |-> max_back, date |-> ret]
                    ELSE last_sync
    /\ store0' = store
    /\ UNCHANGED <<calls, store, provG, provS, symbols, rlVars, httpVars, uniVars>>

\* closes is the set of adjusted values the provider may report
NextWith(closes) ==
    \/ \E a \in InputDates, k \in Lookbacks : SyncStart(a, k)
    \/ \E a \in InputDates, k \in Lookbacks : ResolveStart(a, k)
    \/ \E a \in InputDates, k \in Lookbacks : SingleStart(a, k)
    \/ GSkipWeekend
    \/ GFetch429
    \/ GFetchHttpError
    \/ \E c \in closes : GFetchData(c)
    \/ GFetchEmpty
    \/ SSkipWeekend
    \/ SFetch429
    \/ SFetchHttpError
    \/ \E c \in closes : SFetchBar(c)
    \/ SFetchEmpty
    \/ Return

\* a deterministic provider: what it reported for a date it reports again; the
\* report pipeline's second sync on a resolved date is among the calls
Next ==
    \/ NextWith({1})
    \/ \E k \in Lookbacks : SyncResolved(k)

Spec == Init /\ [][Next]_vars

\* a provider whose adjusted values shift between fetches: a bar is reported with its
\* first value or with a later, different one
NextDrift == NextWith({1, 2})

SpecDrift == Init /\ [][NextDrift]_vars

\* ------------------------------------------------ chart_module._rate_limited_get
\* line 52: an entry of the log is dropped when it is WINDOW or more seconds old
Expired(t, stamp) == t - stamp >= W

\* mutant: one call too many is let through
HasSlotOneMore(log) == Len(log) <= MAX_CALLS

\* line 55: a slot is free
HasSlot(log) == Len(log) < MAX_CALLS

\* line 60: sleep_for = _WINDOW - (now - _CALL_LOG[0]) + 0.1
SleepFor(t, head) == W - (t - head) + Epsilon

\* the MAX_CALLS + 1 most recent grants
Recent(log) == IF Len(log) > MAX_CALLS + 1 THEN Tail(log) ELSE log

\* a caller enters _rate_limited_get (line 46)
RLCall(c) ==
    /\ rpc[c] \in {"idle", "failed"}
    /\ rpc' = [rpc EXCEPT ![c] = "lock"]
    /\ rerr' = [rerr EXCEPT ![c] = "none"]
    /\ UNCHANGED <<now, callLog, lock, local_now, wake, grantLog, syncVars, httpVars, uniVars>>

\* lines 49-50: with _LOCK: now = time.time()
RLLock(c) ==
    /\ rpc[c] = "lock"
    /\ lock = 0
    /\ lock' = c
    /\ local_now' = [local_now EXCEPT ![c] = now]
    /\ rpc' = [rpc EXCEPT ![c] = "prune"]
    /\ UNCHANGED <<now, callLog, wake, rerr, grantLog, syncVars, httpVars, uniVars>>

\* lines 52-53: one popleft()
RLPrune(c) ==
    /\ rpc[c] = "prune"
    /\ callLog # <<>>
    /\ Expired(local_now[c], Head(callLog))
    /\ callLog' = Tail(callLog)
    /\ UNCHANGED <<now, lock, rpc, local_now, wake, rerr, grantLog, syncVars, httpVars, uniVars>>

\* lines 55-57: a slot is free: log the call, leave the lock and the loop
RLGrant(c) ==
    /\ rpc[c] = "prune"
    /\ ~(callLog # <<>> /\ Expired(local_now[c], Head(callLog)))
    /\ HasSlot(callLog)
    /\ callLog' = Append(callLog, local_now[c])
    /\ grantLog' = Recent(Append(grantLog, local_now[c]))
    /\ lock' = 0
    /\ rpc' = [rpc EXCEPT ![c] = "request"]
    /\ local_now' = [local_now EXCEPT ![c] = 0]
    /\ UNCHANGED <<now, wake, rerr, syncVars, httpVars, uniVars>>

\* line 55 fails: leave the lock without a slot
RLFull(c) ==
    /\ rpc[c] = "prune"
    /\ ~(callLog # <<>> /\ Expired(local_now[c], Head(callLog)))
    /\ ~HasSlot(callLog)
    /\ lock' = 0
    /\ rpc' = [rpc EXCEPT ![c] = "backoff"]
    /\ UNCHANGED <<now, callLog, local_now, wake, rerr, grantLog, syncVars, httpVars, uniVars>>

\* lines 60-61, outside the lock: read _CALL_LOG[0] and sleep
RLBackoff(c) ==
    /\ rpc[c] = "backoff"
    /\ callLog # <<>>
    /\ wake' = [wake EXCEPT ![c] = now + SleepFor(local_now[c], Head(callLog))]
    /\ rpc' = [rpc EXCEPT ![c] = "sleep"]
    /\ local_now' = [local_now EXCEPT ![c] = 0]
    /\ UNCHANGED <<now, callLog, lock, rerr, grantLog, syncVars, httpVars, uniVars>>

\* line 60 while another caller, inside the lock, has popped every entry:
\* _CALL_LOG[0] raises IndexError
RLBackoffIndexError(c) ==
    /\ rpc[c] = "backoff"
    /\ callLog = <<>>
    /\ rpc' = [rpc EXCEPT ![c] = "failed"]
    /\ rerr' = [rerr EXCEPT ![c] = "IndexError"]
    /\ local_now' = [local_now EXCEPT ![c] = 0]
    /\ UNCHANGED <<now, callLog, lock, wake, grantLog, syncVars, httpVars, uniVars>>

\* line 61 / line 68: time.sleep() returns; back to the top of the loop (line 48), or,
\* after a 429, into the recursive call (line 69)
RLWake(c) ==
    /\ rpc[c] \in {"sleep", "retry_sleep"}
    /\ now >= wake[c]
    /\ rpc' = [rpc EXCEPT ![c] = "lock"]
    /\ wake' = [wake EXCEPT ![c] = 0]
    /\ UNCHANGED <<now, callLog, lock, local_now, rerr, grantLog, syncVars, httpVars, uniVars>>

\* lines 63, 71-72: the request is answered 2xx
RLResponseOk(c) ==
    /\ rpc[c] = "request"
    /\ rpc' = [rpc EXCEPT ![c] = "idle"]
    /\ UNCHANGED <<now, callLog, lock, local_now, wake, rerr, grantLog, syncVars, httpVars, uniVars>>

\* lines 63, 71: a non-2xx status other than 429
RLResponseError(c) ==
    /\ rpc[c] = "request"
    /\ rpc' = [rpc EXCEPT ![c] = "failed"]
    /\ rerr' = [rerr EXCEPT ![c] = "HTTPError"]
    /\ UNCHANGED <<now, callLog, lock, local_now, wake, grantLog, syncVars, httpVars, uniVars>>

\* lines 66-68: 429; int(r.headers.get("Retry-After", "15"))
RLResponse429(c, header) ==
    /\ rpc[c] = "request"
    /\ IF header = "soon"
       THEN /\ rpc' = [rpc EXCEPT ![c] = "failed"]
            /\ rerr' = [rerr EXCEPT ![c] = "ValueError"]
            /\ UNCHANGED wake
       ELSE /\ rpc' = [rpc EXCEPT ![c] = "retry_sleep"]
            /\ wake' = [wake EXCEPT ![c] =
                    now + Tenths * (IF header = "absent" THEN RETRY_AFTER_DEFAULT ELSE 30)]
            /\ UNCHANGED rerr
    /\ UNCHANGED <<now, callLog, lock, local_now, grantLog, syncVars, httpVars, uniVars>>

Sleepers == {c \in Callers : rpc[c] \in {"sleep", "retry_sleep"} /\ wake[c] > now}

\* time passes; the lock is held only for an instant
Tick ==
    /\ lock = 0
    /\ now + ClockStep <= MaxClock
    /\ now' = now + ClockStep
    /\ UNCHANGED <<callLog, lock, rpc, local_now, wake, rerr, grantLog, syncVars, httpVars, uniVars>>

\* time passes up to the end of the earliest running sleep
TickToWake ==
    /\ lock = 0
    /\ Sleepers # {}
    /\ \E c \in Sleepers :
        /\ \A o \in Sleepers : wake[c] <= wake[o]
        /\ wake[c] <= MaxClock
        /\ now' = wake[c]
    /\ UNCHANGED <<callLog, lock, rpc, local_now, wake, rerr, grantLog, syncVars, httpVars, uniVars>>

NextRL ==
    \/ \E c \in Callers : RLCall(c)
    \/ \E c \in Callers : RLLock(c)
    \/ \E c \in Callers : RLPrune(c)
    \/ \E c \in Callers : RLGrant(c)
    \/ \E c \in Callers : RLFull(c)
    \/ \E c \in Callers : RLBackoff(c)
    \/ \E c \in Callers : RLBackoffIndexError(c)
    \/ \E c \in Callers : RLWake(c)
    \/ \E c \in Callers : RLResponseOk(c)
    \/ \E c \in Callers : RLResponseError(c)
    \/ \E c \in Callers, h \in RetryAfterHeaders : RLResponse429(c, h)
    \/ Tick
    \/ TickToWake

\* the callers of chart_module._rate_limited_get and the clock; nothing is synced
InitRL ==
    /\ Init
    /\ store = EmptyBag
    /\ symbols = {"AAA", "BBB"}

SpecRL == InitRL /\ [][NextRL]_vars

\* ------------------------------------------------- the bar fetchers' response handling
\* js.get("results") is truthy: the key is there, not null, and the list is not empty
Truthy(body) == body.key = "list" /\ body.rows # {}

\* mutant: raise_for_status() is left out, an error body is read as an answer
GroupedOutcomeNoRaise(status, body) ==
    IF status = 429 THEN [out |-> "NameError", bars |-> {}]
    ELSE [out |-> "ok", bars |-> IF Truthy(body) THEN body.rows ELSE {}]

\* prices._fetch_grouped_for_date, lines 42-48
GroupedOutcome(status, body) ==
    IF status = 429 THEN [out |-> "NameError", bars |-> {}]
    ELSE IF status # 200 THEN [out |-> "HTTPError", bars |-> {}]
    ELSE [out |-> "ok", bars |-> IF Truthy(body) THEN body.rows ELSE {}]

\* chart_module._rate_limited_get lines 63-72 and _fetch_1d_agg lines 93-97
RangeOutcome(status, body) ==
    IF status = 429 THEN [out |-> "retry", bars |-> {}]
    ELSE IF status # 200 THEN [out |-> "HTTPError", bars |-> {}]
    ELSE IF ~Truthy(body) THEN [out |-> "RuntimeError", bars |-> {}]
    ELSE [out |-> "ok", bars |-> body.rows]

FetchGrouped(status, body) ==
    /\ fetch' = [fn |-> "grouped", status |-> status, key |-> body.key, rows |-> body.rows,
                 out |-> GroupedOutcome(status, body).out,
                 bars |-> GroupedOutcome(status, body).bars]
    /\ UNCHANGED <<bj_pc, attempt, last_exc, bj_resps, bj_exc, syncVars, rlVars, uniVars>>

FetchRange(status, body) ==
    /\ fetch' = [fn |-> "range", status |-> status, key |-> body.key, rows |-> body.rows,
                 out |-> RangeOutcome(status, body).out,
                 bars |-> RangeOutcome(status, body).bars]
    /\ UNCHANGED <<bj_pc, attempt, last_exc, bj_resps, bj_exc, syncVars, rlVars, uniVars>>

\* ------------------------------------------------------ report._get_json_with_backoff
\* mutant: the loop runs once more
MoreTriesOneMore(a) == a <= MAX_TRIES

\* for attempt in range(1, MAX_TRIES + 1): another iteration follows attempt a
MoreTries(a) == a < MAX_TRIES

\* line 80: raise last_exc if last_exc else RuntimeError("Failed after backoff")
RaisedAfterLoop(exc) == IF exc # "None" THEN exc ELSE "RuntimeError"

\* lines 59-61
BJCall ==
    /\ bj_pc = "idle"
    /\ bj_pc' = "loop"
    /\ attempt' = 1
    /\ last_exc' = "None"
    /\ bj_resps' = <<>>
    /\ bj_exc' = "None"
    /\ UNCHANGED <<fetch, syncVars, rlVars, uniVars>>

\* lines 63, 72-73: a 2xx answer, return r.json()
BJOk ==
    /\ bj_pc = "loop"
    /\ bj_resps' = Append(bj_resps, "ok")
    /\ bj_pc' = "returned"
    /\ UNCHANGED <<attempt, last_exc, bj_exc, fetch, syncVars, rlVars, uniVars>>

\* lines 64-71: 429 or 503: sleep and `continue`; after the last iteration, line 80
BJThrottled ==
    /\ bj_pc = "loop"
    /\ bj_resps' = Append(bj_resps, "throttled")
    /\ IF MoreTries(attempt)
       THEN /\ attempt' = attempt + 1
            /\ UNCHANGED <<bj_pc, bj_exc>>
       ELSE /\ bj_pc' = "raised"
            /\ bj_exc' = RaisedAfterLoop(last_exc)
            /\ UNCHANGED attempt
    /\ UNCHANGED <<last_exc, fetch, syncVars, rlVars, uniVars>>

\* lines 63/72, 74-79: the request or raise_for_status() raises a RequestException e
BJError(e) ==
    /\ bj_pc = "loop"
    /\ bj_resps' = Append(bj_resps, e)
    /\ last_exc' = e
    /\ IF MoreTries(attempt)
       THEN /\ attempt' = attempt + 1
            /\ UNCHANGED <<bj_pc, bj_exc>>
       ELSE /\ bj_pc' = "raised"
            /\ bj_exc' = RaisedAfterLoop(e)
            /\ UNCHANGED attempt
    /\ UNCHANGED <<fetch, syncVars, rlVars, uniVars>>

\* the caller has the JSON or the exception
BJReturn ==
    /\ bj_pc \in {"returned", "raised"}
    /\ bj_pc' = "idle"
    /\ attempt' = 0
    /\ last_exc' = "None"
    /\ bj_resps' = <<>>
    /\ bj_exc' = "None"
    /\ UNCHANGED <<fetch, syncVars, rlVars, uniVars>>

NextHttp ==
    \/ \E st \in Statuses, b \in Bodies : FetchGrouped(st, b)
    \/ \E st \in Statuses, b \in Bodies : FetchRange(st, b)
    \/ BJCall
    \/ BJOk
    \/ BJThrottled
    \/ \E e \in {"HTTPError", "ConnectionError"} : BJError(e)
    \/ BJReturn

\* the response handling of the HTTP helpers, each taken on its own
SpecHttp == InitRL /\ [][NextHttp]_vars

\* ------------------------------------------------------------ universe.UniverseService
\* _derive_megacap, lines 121-140: both Alphabet classes are dropped and one merged
\* GOOGL entry is added; head(25) keeps every row of the lists drawn here
DeriveMegacap(sp500) == (sp500 \ {"GOOGL", "GOOG"}) \cup {"GOOGL"}

LogRow(run, cohort, action, sym) ==
    [run_date |-> run, cohort |-> cohort, action |-> action, symbol |-> sym]

\* mutant: nothing is logged for a cohort whose file does not exist yet
WriteAndLogNoFirst(st, cohort, new, run) ==
    LET adds == IF cohort \in st.exists THEN new \ st.files[cohort] ELSE {}
        drops == IF cohort \in st.exists THEN st.files[cohort] \ new ELSE {}
    IN [exists |-> st.exists \cup {cohort},
        files |-> [st.files EXCEPT ![cohort] = new],
        log |-> st.log (+) SetToBag({LogRow(run, cohort, "added", x) : x \in adds}
                                     \cup {LogRow(run, cohort, "removed", x) : x \in drops})]

\* _write_and_log, lines 142-170, on the state st = [exists, files, log]
WriteAndLog(st, cohort, new, run) ==
    LET adds == IF cohort \in st.exists THEN new \ st.files[cohort] ELSE new
        drops == IF cohort \in st.exists THEN st.files[cohort] \ new ELSE {}
    IN [exists |-> st.exists \cup {cohort},
        files |-> [st.files EXCEPT ![cohort] = new],
        log |-> st.log (+) SetToBag({LogRow(run, cohort, "added", x) : x \in adds}
                                     \cup {LogRow(run, cohort, "removed", x) : x \in drops})]

\* sync(as_of = run), lines 41-60, with the downloads listing spy and mdy
USync(run, spy, mdy) ==
    /\ uni_syncs < MaxUniSyncs
    /\ uni_syncs' = uni_syncs + 1
    /\ LET st0 == [exists |-> uni_exists, files |-> uni_files, log |-> change_log]
           st1 == WriteAndLog(st0, "sp500", spy, run)
           st2 == WriteAndLog(st1, "sp400", mdy, run)
           st3 == WriteAndLog(st2, "megacap", DeriveMegacap(spy), run)
       IN /\ uni_exists' = st3.exists
          /\ uni_files' = st3.files
          /\ change_log' = st3.log
    /\ UNCHANGED <<syncVars, rlVars, httpVars>>

NextUni == \E run \in RunDates, spy \in SpyHoldings, mdy \in MdyHoldings : USync(run, spy, mdy)

SpecUni == InitRL /\ [][NextUni]_vars

TypeOK ==
    /\ pc \in {"idle", "g_loop", "s_loop", "done"}
    /\ mode \in {"none", "sync", "resolve", "single"}
    /\ g_attempts \in 0..(DefaultMaxBack + 1)
    /\ s_attempts \in 0..(DefaultMaxBack + 1)
    /\ d \in Days \cup {NoDate}
    /\ cur \in Days \cup {NoDate}

\* ======================================================================= claims

NumKind(q, kind) == Cardinality({i \in DOMAIN q : q[i].kind = kind})

\* Python's loop entry on a weekend anchor: Saturday -> Friday, Sunday -> Friday
WeekendAdjusted(a) ==
    IF Weekday(a) = 6 THEN a - 2 ELSE IF Weekday(a) = 5 THEN a - 1 ELSE a

\* C1: among the grants of _rate_limited_get, no trailing window of WINDOW seconds
\* (the W tenths up to and including a grant) holds more than MAX_CALLS grants,
\* whatever the interleaving of the callers.  grantLog keeps the MAX_CALLS + 1 most
\* recent grants, so a window with too many grants would show in it.
C1_RateLimiterBound ==
    \A j \in DOMAIN grantLog :
        Cardinality({i \in DOMAIN grantLog :
                        i <= j /\ grantLog[i] > grantLog[j] - W}) <= MAX_CALLS

\* a sixth grant was made as soon as the first of the six had left the window
C1_Witness ==
    /\ Len(grantLog) = MAX_CALLS + 1
    /\ grantLog[MAX_CALLS + 1] - grantLog[1] <= W + Epsilon

\* C2 (as claimed): a 429 answer to a grouped or single-ticker request never reaches
\* the caller of the fetcher; a call ends with a date, with None, with the lookback
\* exhausted or with a non-429 HTTP failure.
C2_429NeverSurfaces ==
    outcome \in {"none", "running", "returned", "NoDataFound", "HTTPError"}

\* C3 (as claimed): no request of the sync path goes out unless the rate limiter
\* granted a slot.
C3_RequestsAreGranted == sent # <<>> => grantLog # <<>>

\* a step of a sync_grouped_bars call whose arguments are those of the last
\* sync_grouped_bars call that returned
RepeatStep ==
    /\ mode' = "sync"
    /\ as_of' = last_sync.as_of
    /\ max_back' = last_sync.max_back

NoNew(kind) == NumKind(sent', kind) = NumKind(sent, kind)

\* C4 (as claimed): a second sync(as_of) after a completed first one adds no row and,
\* once the date the first call returned is covered, sends no request at all.
C4_NoRequestOnceCovered ==
    [][(RepeatStep /\ Covered(CountForDate(store, last_sync.date), symbols))
        => (store' = store /\ sent' = sent)]_vars

\* C4 (amended): a second sync(as_of) adds or duplicates no row; it sends no grouped
\* request when the first call returned the anchor itself and the anchor is covered,
\* and no single-ticker request when the benchmark has a row on the date the first
\* call returned.
C4_SecondSyncIdempotent ==
    [][RepeatStep =>
        /\ store' = store
        /\ (last_sync.date = anchor' /\ Covered(CountForDate(store, anchor'), symbols))
             => NoNew("grouped")
        /\ HasRow(store, Benchmark, last_sync.date) => NoNew("single")]_vars

\* a second sync with the same arguments has returned without any request and with
\* the universe rows of its date in the table
C4_Witness ==
    /\ pc = "done"
    /\ mode = "sync"
    /\ outcome = "returned"
    /\ as_of = last_sync.as_of
    /\ max_back = last_sync.max_back
    /\ sent = <<>>
    /\ \E r \in Rows(store) : r.date = ret /\ r.ticker \in symbols

\* C5: the table holds at most one row for each (ticker, date), after any sequence
\* of sync and single-ticker store calls, reruns with overlapping data included.
C5_OneRowPerKey ==
    \A r1 \in Rows(store) :
        /\ CopiesIn(r1, store) = 1
        /\ \A r2 \in Rows(store) :
            (r1.ticker = r2.ticker /\ r1.date = r2.date) => r1 = r2

\* a rerun has handed rows to the insert for the date the previous sync returned
C5_Witness ==
    /\ pc = "s_loop"
    /\ mode = "sync"
    /\ df # {}
    /\ resolved_date = last_sync.date

\* C6: persisting the same rows a second time changes neither the table nor its row
\* count: the rows sync has inserted, and the bar the single-ticker store has written.
C6_IdempotentUpsert ==
    /\ (mode = "sync" /\ pc \in {"s_loop", "done"} /\ df # {})
         => /\ InsertMany(store, df) = store
            /\ BagCardinality(InsertMany(store, df)) = BagCardinality(store)
    /\ (mode = "single" /\ pc = "done" /\ outcome = "returned" /\ ret # NoDate)
         => \A c \in {1, 2} : InsertOrIgnore(store, Row(Benchmark, ret, c)) = store

\* a sync has inserted its filtered rows and returned
C6_Witness ==
    /\ pc = "done"
    /\ mode = "sync"
    /\ outcome = "returned"
    /\ df # {}
    /\ df \subseteq Rows(store)

\* C7: no step changes or removes a row of the table, also when a later fetch
\* reports other values for its key: the rows only grow.
C7_FirstSeenFrozen ==
    [][\A r \in Rows(store) :
          r \in Rows(store') /\ CopiesIn(r, store') = CopiesIn(r, store)]_vars

\* a sync was handed a row whose key is in the table with another value, and the
\* table kept the first one
C7_Witness ==
    /\ mode = "sync"
    /\ pc \in {"s_loop", "done"}
    /\ \E r \in df : r \notin Rows(store) /\ HasRow(store, r.ticker, r.date)

\* C8: a date returned by backtrack_grouped_to_available or by sync_grouped_bars is
\* a Monday-to-Friday date.
C8_ResolvedNeverWeekend ==
    (pc = "done" /\ outcome = "returned" /\ mode \in {"sync", "resolve"})
        => (ret # NoDate /\ Weekday(ret) < 5)

\* backtracking from a weekend anchor has returned a date
C8_Witness ==
    /\ pc = "done"
    /\ outcome = "returned"
    /\ mode = "resolve"
    /\ Weekday(anchor) >= 5
    /\ ret # NoDate

\* C9: the grouped resolution gives up after the anchor attempt and exactly
\* max_back further attempts, all on weekdays and all answered with zero rows; as
\* long as every answer is empty it neither gives up earlier nor returns, and a date
\* it returns is one the provider reported rows for.
C9_LookbackExhaustion ==
    /\ (pc = "done" /\ outcome = "NoDataFound")
         => /\ Len(sent) = max_back + 1
            /\ g_attempts = max_back + 1
            /\ ret = NoDate
            /\ sent[1].date = WeekendAdjusted(anchor)
            /\ \A i \in DOMAIN sent :
                 /\ sent[i].kind = "grouped"
                 /\ Weekday(sent[i].date) < 5
                 /\ provG[sent[i].date] = {}
    /\ pc = "g_loop" => (g_attempts <= max_back /\ Len(sent) = g_attempts)
    /\ (pc = "done" /\ outcome = "returned" /\ mode = "resolve")
         => provG[ret] \notin {{}, Unknown}

\* with a budget of 3 and a weekend anchor the resolution has given up
C9_Witness ==
    /\ pc = "done"
    /\ outcome = "NoDataFound"
    /\ mode = "resolve"
    /\ max_back = 3
    /\ Weekday(anchor) >= 5

\* C10: in both loops the attempt counter goes up only by one, on a weekday, with a
\* request that was answered with zero rows, never on a step over a weekend day; a
\* Saturday anchor with budget 0 resolves to the Friday before it when the provider
\* has data for that Friday.
C10_WeekendSkipFree ==
    [][/\ g_attempts' # g_attempts
            => \/ g_attempts' = 0
               \/ /\ g_attempts' = g_attempts + 1
                  /\ Weekday(d) < 5
                  /\ provG'[d] = {}
                  /\ sent' = Append(sent, Request("grouped", d))
       /\ s_attempts' # s_attempts
            => \/ s_attempts' = 0
               \/ /\ s_attempts' = s_attempts + 1
                  /\ Weekday(cur) < 5
                  /\ provS'[cur] = "none"
                  /\ sent' = Append(sent, Request("single", cur))
       /\ (pc = "g_loop" /\ d' # d) => (d' = d - 1 /\ pc' = "g_loop")
       /\ (/\ pc' = "done"
           /\ mode' = "resolve"
           /\ Weekday(anchor') = 5
           /\ max_back' = 0
           /\ outcome' \in {"returned", "NoDataFound"}
           /\ provG'[anchor' - 1] \notin {{}, Unknown})
            => (outcome' = "returned" /\ ret' = anchor' - 1)
       /\ (/\ pc' = "done"
           /\ mode' = "single"
           /\ Weekday(anchor') = 5
           /\ max_back' = 0
           /\ outcome' = "returned"
           /\ provS'[anchor' - 1] = "bar")
            => ret' = anchor' - 1]_vars

\* a Saturday anchor with no budget has resolved to its Friday
C10_Witness ==
    /\ pc = "done"
    /\ mode = "resolve"
    /\ Weekday(anchor) = 5
    /\ max_back = 0
    /\ outcome = "returned"
    /\ ret = anchor - 1

\* C11: a single-ticker store call whose requests were all answered with zero rows
\* returns None after max_back + 1 requests (the dt attempt and max_back more), does
\* not return or give up before that, never raises the lookback error, and leaves
\* the table as it was.
C11_SingleBestEffort ==
    /\ (/\ mode = "single"
        /\ pc = "done"
        /\ outcome = "returned"
        /\ sent # <<>>
        /\ \A i \in DOMAIN sent : provS[sent[i].date] = "none")
         => /\ ret = NoDate
            /\ Len(sent) = max_back + 1
            /\ s_attempts = max_back + 1
            /\ store = store0
    /\ (mode = "single" /\ pc = "s_loop")
         => /\ s_attempts <= max_back
            /\ Len(sent) = s_attempts
            /\ store = store0
    /\ (mode = "single" /\ pc = "done") => outcome # "NoDataFound"

\* with a budget of 3 the single-ticker store has returned None
C11_Witness ==
    /\ mode = "single"
    /\ pc = "done"
    /\ outcome = "returned"
    /\ ret = NoDate
    /\ max_back = 3
    /\ Len(sent) = 4

\* C12: when the single-ticker loop of a sync call runs out of budget, sync returns
\* its grouped date all the same, and the table is the table before the call plus
\* the universe-filtered grouped rows: nothing is lost and no benchmark row is added.
C12_MissingBenchmarkNonFatal ==
    (mode = "sync" /\ pc = "done" /\ s_attempts > max_back)
        => /\ outcome = "returned"
           /\ ret = resolved_date
           /\ ret # NoDate
           /\ Rows(store) = Rows(store0) \cup df
           /\ ~\E r \in Rows(store) \ Rows(store0) : r.ticker = Benchmark

\* grouped rows were stored, the benchmark was not found, sync returned the date
C12_Witness ==
    /\ mode = "sync"
    /\ pc = "done"
    /\ s_attempts > max_back
    /\ outcome = "returned"
    /\ df # {}
    /\ df \subseteq Rows(store)
    /\ ~HasRow(store, Benchmark, ret)

\* C13: once the grouped lookback of a sync call is used up, the call has ended with
\* the lookback error: it returns no date, has sent no single-ticker request and has
\* written nothing.
C13_NoDataFoundHardStop ==
    (mode = "sync" /\ g_attempts > max_back)
        => /\ pc = "done"
           /\ outcome = "NoDataFound"
           /\ ret = NoDate
           /\ resolved_date = NoDate
           /\ NumKind(sent, "single") = 0
           /\ df = {}
           /\ store = store0

\* a sync with a budget of 3 has given up on a table that held rows
C13_Witness ==
    /\ mode = "sync"
    /\ pc = "done"
    /\ outcome = "NoDataFound"
    /\ max_back = 3
    /\ Len(sent) = 4
    /\ store # EmptyBag

\* C14 (as claimed): a sync call that ends with the lookback error or with a
\* transport failure leaves the table as it was before the call.
C14_NoPartialWrites ==
    (mode = "sync" /\ pc = "done" /\ outcome \in {"NoDataFound", "HTTPError"})
        => store = store0

\* C15: a sync call that finds more rows on its anchor than 0.9 times the universe
\* size sends no grouped request, goes straight into the single-ticker store for the
\* anchor (which sends its first request for the anchor unless the benchmark row is
\* already there), inserts no grouped row and, when it returns, returns the anchor.
C15_CoverageShortCircuit ==
    (mode = "sync" /\ 10 * CountForDate(store0, anchor) > 9 * Cardinality(symbols))
        => /\ pc \in {"s_loop", "done"}
           /\ NumKind(sent, "grouped") = 0
           /\ df = {}
           /\ resolved_date = anchor
           /\ outcome # "NoDataFound"
           /\ (pc = "done" /\ outcome = "returned") => ret = anchor
           /\ \/ HasRow(store0, Benchmark, anchor)
              \/ pc = "s_loop" /\ (sent = <<>> \/ sent[1] = Request("single", anchor))
              \/ sent # <<>> /\ sent[1] = Request("single", anchor)

\* a short-circuited sync has asked for the benchmark and returned the anchor
C15_Witness ==
    /\ mode = "sync"
    /\ pc = "done"
    /\ outcome = "returned"
    /\ 10 * CountForDate(store0, anchor) > 9 * Cardinality(symbols)
    /\ ret = anchor
    /\ sent # <<>>
    /\ NumKind(sent, "single") = Len(sent)

\* C16 (as claimed): sync goes without a grouped request only when more than 0.9 of
\* the universe's tickers have a row on the anchor.
C16_CoverageOverUniverse ==
    (mode = "sync" /\ pc \in {"s_loop", "done"} /\ NumKind(sent, "grouped") = 0)
        => 10 * Cardinality({t \in symbols : HasRow(store0, t, anchor)})
              > 9 * Cardinality(symbols)

\* C17 (as claimed): after a sync call on an empty table every row's ticker is in
\* the universe.
C17_UniverseContainment ==
    (mode = "sync" /\ pc = "done" /\ store0 = EmptyBag)
        => \A r \in Rows(store) : r.ticker \in symbols

\* C18 (as claimed): after one sync call on an empty table all rows carry the same
\* date.
C18_SingleTradeDate ==
    (mode = "sync" /\ pc = "done" /\ outcome = "returned" /\ store0 = EmptyBag)
        => \A r1, r2 \in Rows(store) : r1.date = r2.date

\* C19: as_of is a Saturday, the table is empty, the universe is {AAA, BBB}, the
\* provider has no grouped rows for the Thursday before as_of, has bars for AAA, BBB
\* and CCC on the Wednesday and has nothing else (no benchmark bar on any date
\* asked).  A sync that returns then returns the Wednesday, the table holds exactly
\* the AAA and the BBB row of that Wednesday, and the Friday was never asked for.
C19_SaturdayScenario ==
    (/\ mode = "sync"
     /\ pc = "done"
     /\ outcome = "returned"
     /\ Weekday(as_of) = 5
     /\ store0 = EmptyBag
     /\ symbols = {"AAA", "BBB"}
     /\ provG[as_of - 2] = {}
     /\ provG[as_of - 3] = {"AAA", "BBB", "CCC"}
     /\ \A i \in DOMAIN sent : sent[i].kind = "single" => provS[sent[i].date] = "none")
        => /\ ret = as_of - 3
           /\ Weekday(ret) = 2
           /\ BagCardinality(store) = 2
           /\ Rows(store) = {Row("AAA", as_of - 3, 1), Row("BBB", as_of - 3, 1)}
           /\ sent[1] = Request("grouped", as_of - 2)
           /\ sent[2] = Request("grouped", as_of - 3)
           /\ \A i \in DOMAIN sent : sent[i].date # as_of - 1

\* the scenario has run to its end
C19_Witness ==
    /\ mode = "sync"
    /\ pc = "done"
    /\ outcome = "returned"
    /\ Weekday(as_of) = 5
    /\ store0 = EmptyBag
    /\ symbols = {"AAA", "BBB"}
    /\ provG[as_of - 2] = {}
    /\ provG[as_of - 3] = {"AAA", "BBB", "CCC"}
    /\ BagCardinality(store) = 2
    /\ ret = as_of - 3

\* C20 (as claimed): a request of _rate_limited_get that is answered 429 is followed
\* by a sleep of the Retry-After seconds, or of RETRY_AFTER_DEFAULT seconds when the
\* header is absent or not a number, and never by an error.
C20_RetryAfterFallback ==
    [][\A c \in Callers :
          (rpc[c] = "request" /\ rpc'[c] # "idle" /\ rerr'[c] # "HTTPError")
              => /\ rpc'[c] = "retry_sleep"
                 /\ wake'[c] - now \in {Tenths * RETRY_AFTER_DEFAULT, Tenths * 30}]_vars

\* C22 (as claimed): no caller of _rate_limited_get is ended by an error of the gate
\* itself (lines 48-61), whatever the interleaving; the gate only delays.
C22_AcquireNeverFails == \A c \in Callers : rerr[c] # "IndexError"

\* C23 (as claimed), in the form a finite run refutes: a caller that is inside the
\* gate (waiting for the lock, pruning, computing its back-off or sleeping) stays in
\* it until it is granted a slot: it leaves the gate only into its request.
C23_BlockedCallerIsGranted ==
    [][\A c \in Callers :
          rpc[c] \in {"lock", "prune", "backoff", "sleep"}
              => rpc'[c] \in {"lock", "prune", "backoff", "sleep", "request"}]_vars

\* C28 (as claimed): the sleep a caller computes after finding the window full is
\* longer than zero and at most WINDOW + 0.1 seconds.
C28_BackoffBounded ==
    [][\A c \in Callers :
          (rpc[c] = "backoff" /\ rpc'[c] = "sleep")
              => /\ wake'[c] - now > 0
                 /\ wake'[c] - now <= W + Epsilon]_vars

\* C21 (as claimed): for the grouped and for the range fetcher a 2xx answer without
\* rows (results absent, null or empty) is a normal, empty outcome; a non-2xx status
\* other than 429 is an error; bars are returned only when rows were reported.
C21_EmptyIsNormal ==
    fetch.fn # "none"
        => /\ (fetch.status = 200 /\ ~(fetch.key = "list" /\ fetch.rows # {}))
                => (fetch.out = "ok" /\ fetch.bars = {})
           /\ fetch.status \notin {200, 429} => fetch.out = "HTTPError"
           /\ fetch.bars # {}
                => (fetch.status = 200 /\ fetch.key = "list" /\ fetch.rows = fetch.bars)

\* C21 (amended): the grouped fetcher turns a 2xx answer without rows into an empty
\* list; the range fetcher raises RuntimeError on it, which is not the HTTPError of
\* a non-2xx status; both raise HTTPError on a non-2xx status other than 429, and
\* both return bars only when the provider reported them, and then exactly those.
C21_EmptyVersusError ==
    fetch.fn # "none"
        => /\ (fetch.status = 200 /\ ~(fetch.key = "list" /\ fetch.rows # {}))
                => /\ fetch.bars = {}
                   /\ fetch.fn = "grouped" => fetch.out = "ok"
                   /\ fetch.fn = "range" => fetch.out = "RuntimeError"
           /\ fetch.status \notin {200, 429} => (fetch.out = "HTTPError" /\ fetch.bars = {})
           /\ (fetch.status = 200 /\ fetch.key = "list" /\ fetch.rows # {})
                => (fetch.out = "ok" /\ fetch.bars = fetch.rows)
           /\ fetch.bars # {}
                => (fetch.status = 200 /\ fetch.key = "list" /\ fetch.rows = fetch.bars)

\* the range fetcher has met a 2xx answer whose results are null
C21_Witness ==
    /\ fetch.fn = "range"
    /\ fetch.status = 200
    /\ fetch.key = "null"
    /\ fetch.out = "RuntimeError"

\* C29: _get_json_with_backoff sends at most MAX_TRIES requests; it returns on the
\* first 2xx answer and only then; otherwise it raises after MAX_TRIES requests, and
\* with every answer a 429/503 what it raises is the RuntimeError of line 80.
C29_BackoffTerminates ==
    /\ Len(bj_resps) <= MAX_TRIES
    /\ bj_pc = "loop"
         => /\ attempt \in 1..MAX_TRIES
            /\ Len(bj_resps) = attempt - 1
            /\ \A i \in DOMAIN bj_resps : bj_resps[i] # "ok"
    /\ bj_pc = "returned"
         => /\ bj_resps # <<>>
            /\ \A i \in DOMAIN bj_resps : (bj_resps[i] = "ok") <=> (i = Len(bj_resps))
    /\ bj_pc = "raised"
         => /\ Len(bj_resps) = MAX_TRIES
            /\ \A i \in DOMAIN bj_resps : bj_resps[i] # "ok"
            /\ bj_exc # "None"
            /\ (\A i \in DOMAIN bj_resps : bj_resps[i] = "throttled")
                 => bj_exc = "RuntimeError"
    /\ (Len(bj_resps) = MAX_TRIES /\ bj_resps[MAX_TRIES] # "ok") => bj_pc = "raised"

\* five answers, all 429/503, and the helper has raised
C29_Witness ==
    /\ bj_pc = "raised"
    /\ Len(bj_resps) = MAX_TRIES
    /\ \A i \in DOMAIN bj_resps : bj_resps[i] = "throttled"
    /\ bj_exc = "RuntimeError"

\* the rows of cohort c that a step adds to the change log
NewLogRows(c) == {r \in BagToSet(change_log' (-) change_log) : r.cohort = c}

\* C30: a universe sync keeps every row of the change log and appends, for each
\* cohort, one "added" row for each symbol of (new minus old) and one "removed" row
\* for each symbol of (old minus new), all with the run's date, and nothing else; on
\* the first sync every symbol is logged as added and the log is not empty; with the
\* holdings unchanged nothing is appended.
C30_ChangeLogExact ==
    [][uni_syncs' # uni_syncs =>
        /\ \A r \in BagToSet(change_log) : CopiesIn(r, change_log') >= CopiesIn(r, change_log)
        /\ \A r \in BagToSet(change_log' (-) change_log) :
              CopiesIn(r, change_log' (-) change_log) = 1
        /\ \E run \in RunDates : \A c \in Cohorts :
              LET old == IF c \in uni_exists THEN uni_files[c] ELSE {}
                  new == uni_files'[c]
              IN NewLogRows(c) =
                    {LogRow(run, c, "added", x) : x \in new \ old}
                      \cup {LogRow(run, c, "removed", x) : x \in old \ new}
        /\ uni_exists = {} =>
              /\ change_log' # EmptyBag
              /\ \A c \in Cohorts : \A x \in uni_files'[c] :
                    \E r \in BagToSet(change_log') :
                        r.cohort = c /\ r.symbol = x /\ r.action = "added"
        /\ (uni_exists = Cohorts /\ uni_files' = uni_files) => change_log' = change_log
        /\ uni_exists' = Cohorts]_vars

\* after a second sync the log holds a removal next to the rows of the first sync
C30_Witness ==
    /\ uni_syncs = 2
    /\ \E r \in BagToSet(change_log) : r.action = "removed" /\ r.cohort = "sp500"
    /\ \E r \in BagToSet(change_log) : r.action = "added" /\ r.cohort = "megacap"

\* C24: the anchor sync_grouped_bars computes from as_of is a Thursday, is not after
\* as_of, is fewer than 7 days before it, and is as_of itself when as_of is a
\* Thursday.
C24_ThursdayAnchor ==
    mode = "sync"
        => /\ Weekday(anchor) = 3
           /\ anchor <= as_of
           /\ as_of - anchor < 7
           /\ Weekday(as_of) = 3 => anchor = as_of

\* a sync was called with a Wednesday, six days after its anchor
C24_Witness ==
    /\ mode = "sync"
    /\ Weekday(as_of) = 2
    /\ anchor = as_of - 6

\* C25: within a sync call the single-ticker loop counts from zero whatever the
\* grouped loop has used: its counter is the number of single-ticker requests
\* answered empty, it gives up only after max_back + 1 of them, and the grouped
\* counter is the number of grouped requests answered empty and stays as it is while
\* the single-ticker loop runs.
C25_IndependentCounters ==
    mode = "sync"
        => /\ pc = "g_loop"
                => /\ g_attempts = NumKind(sent, "grouped")
                   /\ s_attempts = 0
                   /\ NumKind(sent, "single") = 0
           /\ pc = "s_loop"
                => /\ s_attempts = NumKind(sent, "single")
                   /\ s_attempts <= max_back
                   /\ g_attempts \in {NumKind(sent, "grouped"), NumKind(sent, "grouped") - 1}
           /\ (pc = "done" /\ s_attempts > max_back)
                => /\ NumKind(sent, "single") = max_back + 1
                   /\ s_attempts = max_back + 1
           /\ g_attempts <= max_back + 1
           /\ s_attempts <= max_back + 1

\* the grouped loop used its three spare attempts and the single-ticker loop after
\* it still made all four of its own
C25_Witness ==
    /\ mode = "sync"
    /\ pc = "done"
    /\ max_back = 3
    /\ g_attempts = 3
    /\ s_attempts = 4
    /\ NumKind(sent, "single") = 4

\* C26 (as claimed): a sync called with the date an earlier sync returned, and with
\* the same lookback, returns that date again and adds rows for no other date.
C26_ResyncResolvedNoOp ==
    (/\ mode = "sync"
     /\ pc = "done"
     /\ outcome = "returned"
     /\ as_of = last_sync.date
     /\ max_back = last_sync.max_back)
        => /\ ret = as_of
           /\ \A r \in Rows(store) \ Rows(store0) : r.date = as_of

====
